---- MODULE Spec2Model ----
(***************************************************************************)
(* photokinthesis: the deduplication pass of utils.deduplicate_photos, as  *)
(* the dedup command of cli.py runs it.                                    *)
(*                                                                         *)
(* One run of the command over one reorganized directory is modelled:      *)
(* the front images are listed, each is hashed (or dropped when it cannot  *)
(* be read), the hashed images are grouped greedily by Hamming distance,   *)
(* and the kept images and the duplicate pairs are copied out.             *)
(*                                                                         *)
(* An image is identified by a natural number: the rank of its path in     *)
(* the order Python's sorted() gives paths of one directory. A fingerprint *)
(* is the natural number whose binary digits are the bits of the average   *)
(* hash.                                                                   *)
(***************************************************************************)
EXTENDS Integers, Sequences, FiniteSets, TLC

\* ------------------------------------------------------------------------
\* Bounds of the model.

\* Most front images in the input directory.
MaxImages == 3

\* Largest threshold the command is called with (the smallest is -1).
MaxThreshold == 3

\* Bits of a fingerprint (imagehash's default is 64).
HashBits == 7

\* The fingerprints the image files of the model hash to: 0000000, 0000001,
\* 0000011, 0001111 and 1110011. Their pairwise distances are 1..5, so that
\* equal, near and far pairs and similarity chains all occur.
Fingerprints == {0, 1, 3, 15, 115}

\* The content of a file PIL cannot open (a value that is no fingerprint).
Unreadable == 2 ^ HashBits

Thresholds == {0 - 1} \cup (0 .. MaxThreshold)

\* The runs that compare thresholds take directories of one image more: a
\* higher threshold finds fewer duplicates from four images on.
MoreImages == MaxImages + 1

\* ------------------------------------------------------------------------
\* Helpers of the Python the code uses.

Range(s) == {s[k] : k \in 1 .. Len(s)}

SetMin(S) == CHOOSE x \in S : \A y \in S : x <= y

Max(S) == CHOOSE x \in S : \A y \in S : y <= x

RECURSIVE Ascending(_)
\* The elements of a set of paths in ascending order.
Ascending(S) ==
    IF S = {} THEN <<>> ELSE <<SetMin(S)>> \o Ascending(S \ {SetMin(S)})

\* sorted with a fault: the list stays in the order it came.
sorted_unsorted(s) == s

\* Python's sorted() over a list of distinct paths.
sorted(s) == Ascending(Range(s))

\* The subsequence of s whose elements are in S, in the order of s.
Filter(s, S) == SelectSeq(s, LAMBDA x : x \in S)

RECURSIVE Enumerations(_)
\* Every order a finite set can be enumerated in, each element once.
Enumerations(S) ==
    IF S = {} THEN {<<>>}
    ELSE UNION {{<<x>> \o p : p \in Enumerations(S \ {x})} : x \in S}

RECURSIVE DifferingBits(_, _, _)
DifferingBits(a, b, k) ==
    IF k = 0 THEN 0
    ELSE (IF a % 2 # b % 2 THEN 1 ELSE 0)
         + DifferingBits(a \div 2, b \div 2, k - 1)

\* imagehash's hash1 - hash2: the number of bit positions where they differ.
Distance(hash1, hash2) == DifferingBits(hash1, hash2, HashBits)

\* IsDuplicate with a fault: == instead of <=.
IsDuplicate_exact(distance, t) == distance = t

\* IsDuplicate with a fault: < instead of <=.
IsDuplicate_strict(distance, t) == distance < t

\* The test of line 190: distance <= threshold.
IsDuplicate(distance, t) == distance <= t

\* ------------------------------------------------------------------------
\* image_hashes is a dict in insertion order: a sequence of <<path, hash>>.

Keys(d) == [k \in 1 .. Len(d) |-> d[k][1]]

Lookup(d, key) == d[CHOOSE k \in 1 .. Len(d) : d[k][1] = key][2]

\* ------------------------------------------------------------------------
\* The grouping pass (utils.py lines 164-196) as steps over a record of its
\* local variables: i is the position of the outer loop in sorted_images,
\* scan the position of the inner loop, at the place of the loop it is in;
\* comparisons lists the evaluations of hash1 - hash2, as <<img1, img2>>.

GroupStart ==
    [at |-> "outer", i |-> 1, scan |-> 1, kept_files |-> {},
     duplicate_files |-> <<>>, processed |-> {}, comparisons |-> <<>>]

\* Lines 173-174: img1 was claimed as a duplicate, the outer loop moves on.
SkipStep(g) == [g EXCEPT !.i = @ + 1]

\* KeepStep with a fault: img1 is not marked processed.
KeepStep_unmarked(g, images) ==
    [g EXCEPT !.kept_files = @ \cup {images[g.i]},
              !.scan = g.i + 1,
              !.at = "inner"]

\* Lines 177-182: img1 is kept as an original, the scan of the rest starts.
KeepStep(g, images) ==
    [g EXCEPT !.kept_files = @ \cup {images[g.i]},
              !.processed = @ \cup {images[g.i]},
              !.scan = g.i + 1,
              !.at = "inner"]

\* Lines 183-184: img2 is claimed already, the inner loop moves on.
PassStep(g) == [g EXCEPT !.scan = @ + 1]

\* CompareStep with a fault: the duplicate is not marked processed.
CompareStep_unmarked(g, images, hashes, t) ==
    IF IsDuplicate(Distance(Lookup(hashes, images[g.i]),
                            Lookup(hashes, images[g.scan])), t)
    THEN [g EXCEPT !.duplicate_files = (images[g.scan] :> images[g.i]) @@ @,
                   !.scan = @ + 1,
                   !.comparisons = Append(@, <<images[g.i], images[g.scan]>>)]
    ELSE [g EXCEPT !.scan = @ + 1,
                   !.comparisons = Append(@, <<images[g.i], images[g.scan]>>)]

\* CompareStep with a fault: img2 is compared with the image scanned just
\* before it instead of with img1 (grouping along chains).
CompareStep_chained(g, images, hashes, t) ==
    IF IsDuplicate(Distance(Lookup(hashes, images[g.scan - 1]),
                            Lookup(hashes, images[g.scan])), t)
    THEN [g EXCEPT !.duplicate_files = (images[g.scan] :> images[g.i]) @@ @,
                   !.processed = @ \cup {images[g.scan]},
                   !.scan = @ + 1,
                   !.comparisons = Append(@, <<images[g.scan - 1], images[g.scan]>>)]
    ELSE [g EXCEPT !.scan = @ + 1,
                   !.comparisons = Append(@, <<images[g.scan - 1], images[g.scan]>>)]

\* CompareStep with a fault: the pair is recorded the wrong way round.
CompareStep_swapped(g, images, hashes, t) ==
    IF IsDuplicate(Distance(Lookup(hashes, images[g.i]),
                            Lookup(hashes, images[g.scan])), t)
    THEN [g EXCEPT !.duplicate_files = (images[g.i] :> images[g.scan]) @@ @,
                   !.processed = @ \cup {images[g.scan]},
                   !.scan = @ + 1,
                   !.comparisons = Append(@, <<images[g.i], images[g.scan]>>)]
    ELSE [g EXCEPT !.scan = @ + 1,
                   !.comparisons = Append(@, <<images[g.i], images[g.scan]>>)]

\* Lines 186-196: img2 is compared with img1 and, within the threshold,
\* recorded as its duplicate.
CompareStep(g, images, hashes, t) ==
    IF IsDuplicate(Distance(Lookup(hashes, images[g.i]),
                            Lookup(hashes, images[g.scan])), t)
    THEN [g EXCEPT !.duplicate_files = (images[g.scan] :> images[g.i]) @@ @,
                   !.processed = @ \cup {images[g.scan]},
                   !.scan = @ + 1,
                   !.comparisons = Append(@, <<images[g.i], images[g.scan]>>)]
    ELSE [g EXCEPT !.scan = @ + 1,
                   !.comparisons = Append(@, <<images[g.i], images[g.scan]>>)]

\* Line 182: the slice is exhausted, the outer loop takes its next image.
EndScanStep(g) == [g EXCEPT !.i = @ + 1, !.at = "outer"]

\* Line 172: the outer loop is exhausted.
EndGroupStep(g) == [g EXCEPT !.at = "end"]

\* GroupStep with a fault: the inner loop lacks the test of lines 183-184
\* and compares img1 with processed images too.
GroupStep_rescan(g, images, hashes, t) ==
    IF g.at = "outer"
    THEN IF g.i > Len(images) THEN EndGroupStep(g)
         ELSE IF images[g.i] \in g.processed THEN SkipStep(g)
         ELSE KeepStep(g, images)
    ELSE IF g.scan > Len(images) THEN EndScanStep(g)
         ELSE CompareStep(g, images, hashes, t)

\* One step of the two loops, whichever is due.
GroupStep(g, images, hashes, t) ==
    IF g.at = "outer"
    THEN IF g.i > Len(images) THEN EndGroupStep(g)
         ELSE IF images[g.i] \in g.processed THEN SkipStep(g)
         ELSE KeepStep(g, images)
    ELSE IF g.scan > Len(images) THEN EndScanStep(g)
         ELSE IF images[g.scan] \in g.processed THEN PassStep(g)
         ELSE CompareStep(g, images, hashes, t)

RECURSIVE GroupRun(_, _, _, _)
\* The loops run from g to their end.
GroupRun(g, images, hashes, t) ==
    IF g.at = "end" THEN g
    ELSE GroupRun(GroupStep(g, images, hashes, t), images, hashes, t)

\* Lines 164-196 as a function of image_hashes and the threshold: the
\* kept set and the duplicate mapping the pass ends with.
GroupingPass(hashes, t) ==
    LET g == GroupRun(GroupStart, sorted(Keys(hashes)), hashes, t)
    IN  [kept_files |-> g.kept_files, duplicate_files |-> g.duplicate_files]

\* HashStep with a fault: when the image cannot be read, the hash left
\* over from the image before it is stored.
HashStep_stale(hashes, img_path, content) ==
    IF content[img_path] = Unreadable
    THEN IF hashes = <<>> THEN hashes
         ELSE Append(hashes, <<img_path, hashes[Len(hashes)][2]>>)
    ELSE Append(hashes, <<img_path, content[img_path]>>)

\* Lines 154-160: the image is opened and hashed into image_hashes; when
\* that raises, the error is printed and image_hashes stays as it is.
HashStep(hashes, img_path, content) ==
    IF content[img_path] = Unreadable THEN hashes
    ELSE Append(hashes, <<img_path, content[img_path]>>)

RECURSIVE HashFrom(_, _, _)
\* Lines 151-160 as a function of the listed images and the files' content.
HashFrom(hashes, images, content) ==
    IF images = <<>> THEN hashes
    ELSE HashFrom(HashStep(hashes, Head(images), content), Tail(images), content)

\* Line 146: the .jpg files sorted, then the .JPG files sorted, whatever
\* order the directory was enumerated in.
ListFronts(enumeration, uppercase) ==
    sorted(Filter(enumeration, Range(enumeration) \ uppercase))
    \o sorted(Filter(enumeration, uppercase))

\* ------------------------------------------------------------------------
\* The state of one run of the dedup command.

VARIABLES
    files,            \* input fronts: path -> the fingerprint its pixels
                      \* hash to, or Unreadable
    upper,            \* the input fronts named *.JPG (the others are *.jpg)
    threshold,        \* the --threshold option
    pc,               \* the place of the run in deduplicate_photos
    front_images,     \* line 146
    hash_pos,         \* position of the loop of line 153 in front_images
    image_hashes,     \* line 151
    sorted_images,    \* line 170
    group,            \* the locals of the loops of lines 172-196
    output_fronts,    \* paths copied to output_dir/fronts
    duplicates_dir,   \* names written to duplicates_dir
    returned          \* the statistics returned to the command, once

VARIABLES
    input_enhanced,   \* the input fronts with an enhanced front of their stem
    input_backs,      \* the input fronts with a back of their stem
    output_enhanced,  \* fronts whose enhanced front was copied to the output
    output_backs      \* fronts whose back was copied to the output

\* The side files of the run and what became of them.
sideVars == <<input_enhanced, input_backs, output_enhanced, output_backs>>

\* The state of one run of the reorganize command (reorganize_fast_foto).
VARIABLES
    fast_foto_tree,        \* the *.jpg files under fast_foto_dir
    out_exists,            \* the output directories that exist
    out_old,               \* the output directories that hold files at the
                           \* start of the run
    reorg_pc,              \* the place of the run in reorganize_fast_foto
    jpg_files,             \* line 46
    file_pos,              \* position of the loop of line 52 in jpg_files
    file_groups,           \* line 50
    all_groups,            \* line 76
    basename_counts,       \* line 82
    counter_per_basename,  \* line 87
    group_pos,             \* position of the loop of line 89 in all_groups
    copied,                \* the copies made, in order
    reorg_error            \* the exception the run ended with, if any

reorgVars == <<fast_foto_tree, out_exists, out_old, reorg_pc, jpg_files,
               file_pos, file_groups, all_groups, basename_counts,
               counter_per_basename, group_pos, copied, reorg_error>>

dedupVars == <<files, upper, threshold, pc, front_images, hash_pos,
               image_hashes, sorted_images, group, output_fronts,
               duplicates_dir, returned, sideVars>>

\* The state of the image endpoint of the browsing API (serve_image,
\* PhotoService.get_image_path, validate_path).
VARIABLES
    img_disk,         \* the files that exist
    img_links,        \* the symbolic links that exist: path -> target
    img_args,         \* the arguments of the request
    img_pc,           \* the place of the request in serve_image
    img_result,       \* what get_image_path returned or raised
    img_status        \* the status of the response, 0 before it

imgVars == <<img_disk, img_links, img_args, img_pc, img_result, img_status>>

\* The state of the listing endpoint of the browsing API (list_photos,
\* PhotoService.list_photos).
VARIABLES
    col_missing,      \* what the collection lacks on disk: "none", or the
                      \* first of "xmp_dir", "VERSION", "enhanced_fronts"
    col_images,       \* the stems of the images in enhanced_fronts
    col_upper,        \* those named *.JPG (the others are *.jpg)
    col_matches,      \* the stems of the XMP files the query "q" matches
    list_args,        \* the parsed arguments of the request
    list_pc,          \* the place of the request in list_photos
    list_touched,     \* whether the request has read the disk
    search_basenames, \* line 46 of photos.py
    list_response     \* the response, once

listVars == <<col_missing, col_images, col_upper, col_matches, list_args,
              list_pc, list_touched, search_basenames, list_response>>

\* The state of the collection viewer (web/app.py).
VARIABLES
    app_disk,                 \* the directories: path -> what is there
    current_collection,       \* line 28; loaded is FALSE for None
    current_collection_path,  \* line 29; "None" for None
    app_request,              \* the request handled last
    app_response,             \* the response to it
    app_loaded,               \* whether a load has been answered with 200
    app_trail                 \* the orientation set last and what became of it

appVars == <<app_disk, current_collection, current_collection_path,
             app_request, app_response, app_loaded, app_trail>>

\* The state of the browsing API and the viewer.
webVars == <<imgVars, listVars, appVars>>

\* The state of the init-collection and recognize-faces commands
\* (init_collection, recognize_faces).
VARIABLES
    xmp_tags,         \* the tags init_collection is given
    xmp_docs,         \* the XMP files of the collection: stem -> document
    face_images,      \* the stems that have an image in enhanced_fronts
    face_pc,          \* the place of the commands
    xmp_files,        \* facial_recognition.py, line 48
    xmp_pos,          \* position of the loop of line 51 in xmp_files
    face_runs,        \* the runs of recognize_faces so far
    face_last,        \* stem -> the faces detected last
    face_passes       \* stem -> the times its XMP file was rewritten

faceVars == <<xmp_tags, xmp_docs, face_images, face_pc, xmp_files, xmp_pos,
              face_runs, face_last, face_passes>>

\* The state of the programs other than the dedup command.
otherVars == <<reorgVars, webVars, faceVars>>

\* The state of the programs other than the reorganize command.
exceptReorg == <<dedupVars, webVars, faceVars>>

\* The state of the programs other than the image endpoint.
exceptImg == <<dedupVars, reorgVars, listVars, appVars, faceVars>>

\* The state of the programs other than the listing endpoint.
exceptList == <<dedupVars, reorgVars, imgVars, appVars, faceVars>>

\* The state of the programs other than the viewer.
exceptApp == <<dedupVars, reorgVars, imgVars, listVars, faceVars>>

\* The state of the programs other than init-collection and
\* recognize-faces.
exceptFace == <<dedupVars, reorgVars, webVars>>

vars == <<dedupVars, reorgVars, webVars, faceVars>>

\* No collection is initialized and no faces are looked for.
FaceIdle ==
    /\ xmp_tags = <<>>
    /\ xmp_docs = <<>>
    /\ face_images = {}
    /\ face_pc = "idle"
    /\ xmp_files = <<>>
    /\ xmp_pos = 1
    /\ face_runs = 0
    /\ face_last = <<>>
    /\ face_passes = <<>>

\* No image is requested.
ImgIdle ==
    /\ img_disk = {}
    /\ img_links = <<>>
    /\ img_args = <<>>
    /\ img_pc = "idle"
    /\ img_result = <<>>
    /\ img_status = 0

\* No listing is requested.
ListIdle ==
    /\ col_missing = "none"
    /\ col_images = {}
    /\ col_upper = {}
    /\ col_matches = {}
    /\ list_args = <<>>
    /\ list_pc = "idle"
    /\ list_touched = FALSE
    /\ search_basenames = <<>>
    /\ list_response = <<>>

\* The viewer is not started.
AppIdle ==
    /\ app_disk = <<>>
    /\ current_collection = [loaded |-> FALSE, photos |-> <<>>]
    /\ current_collection_path = "None"
    /\ app_request = [endpoint |-> "none"]
    /\ app_response = [status |-> 0, detail |-> ""]
    /\ app_loaded = FALSE
    /\ app_trail = [stage |-> "none"]

\* The browsing API and the viewer get no request.
WebIdle == ImgIdle /\ ListIdle /\ AppIdle

\* No reorganize command is run.
ReorgIdle ==
    /\ fast_foto_tree = {}
    /\ out_exists = {}
    /\ out_old = {}
    /\ reorg_pc = "idle"
    /\ jpg_files = <<>>
    /\ file_pos = 1
    /\ file_groups = <<>>
    /\ all_groups = <<>>
    /\ basename_counts = <<>>
    /\ counter_per_basename = <<>>
    /\ group_pos = 1
    /\ copied = <<>>
    /\ reorg_error = "none"

\* The other programs are not running.
OthersIdle == ReorgIdle /\ WebIdle /\ FaceIdle

kept_files == group.kept_files
duplicate_files == group.duplicate_files
processed == group.processed

Init ==
    /\ \E n \in 0 .. MaxImages :
         /\ files \in [1 .. n -> Fingerprints \cup {Unreadable}]
         /\ upper \in {u \in SUBSET (1 .. n) : Cardinality(u) <= 1}
    /\ threshold \in Thresholds
    /\ pc = "list"
    /\ front_images = <<>>
    /\ hash_pos = 1
    /\ image_hashes = <<>>
    /\ sorted_images = <<>>
    /\ group = GroupStart
    /\ output_fronts = {}
    /\ duplicates_dir = {}
    /\ returned = <<>>
    /\ input_enhanced = {} /\ input_backs = {}
    /\ output_enhanced = {} /\ output_backs = {}
    /\ OthersIdle

\* Lines 130-148: the output directories are made (they may exist) and the
\* fronts directory is globbed, in whatever order the file system gives.
ListImages ==
    /\ pc = "list"
    /\ \E enumeration \in Enumerations(DOMAIN files) :
         front_images' = ListFronts(enumeration, upper)
    /\ pc' = "hash"
    /\ UNCHANGED <<files, upper, threshold, hash_pos, image_hashes,
                   sorted_images, group, output_fronts, duplicates_dir, returned>>
    /\ UNCHANGED <<sideVars, otherVars>>

\* Lines 153-160: one turn of the hashing loop.
HashImage ==
    /\ pc = "hash"
    /\ hash_pos <= Len(front_images)
    /\ image_hashes' = HashStep(image_hashes, front_images[hash_pos], files)
    /\ hash_pos' = hash_pos + 1
    /\ UNCHANGED <<files, upper, threshold, pc, front_images, sorted_images,
                   group, output_fronts, duplicates_dir, returned>>
    /\ UNCHANGED <<sideVars, otherVars>>

\* Lines 162-170: the hashing loop is over; the accumulators are made and
\* the hashed images are sorted.
SortImages ==
    /\ pc = "hash"
    /\ hash_pos > Len(front_images)
    /\ sorted_images' = sorted(Keys(image_hashes))
    /\ group' = GroupStart
    /\ pc' = "group"
    /\ UNCHANGED <<files, upper, threshold, front_images, hash_pos,
                   image_hashes, output_fronts, duplicates_dir, returned>>
    /\ UNCHANGED <<sideVars, otherVars>>

GroupFrame ==
    UNCHANGED <<files, upper, threshold, front_images, hash_pos, image_hashes,
                sorted_images, output_fronts, duplicates_dir, returned,
                sideVars, otherVars>>

\* Lines 172-174: the outer loop reaches an image claimed as a duplicate.
SkipProcessed ==
    /\ pc = "group" /\ group.at = "outer"
    /\ group.i <= Len(sorted_images)
    /\ sorted_images[group.i] \in processed
    /\ group' = GroupStep(group, sorted_images, image_hashes, threshold)
    /\ pc' = pc
    /\ GroupFrame

\* KeepOriginal with a fault: the image is copied to the output as soon
\* as it is kept, inside the loop.
KeepOriginal_copying ==
    /\ pc = "group" /\ group.at = "outer"
    /\ group.i <= Len(sorted_images)
    /\ sorted_images[group.i] \notin processed
    /\ group' = GroupStep(group, sorted_images, image_hashes, threshold)
    /\ pc' = pc
    /\ output_fronts' = output_fronts \cup {sorted_images[group.i]}
    /\ UNCHANGED <<files, upper, threshold, front_images, hash_pos,
                   image_hashes, sorted_images, duplicates_dir, returned,
                   sideVars, otherVars>>

\* Lines 172-182: the outer loop reaches an unclaimed image and keeps it.
KeepOriginal ==
    /\ pc = "group" /\ group.at = "outer"
    /\ group.i <= Len(sorted_images)
    /\ sorted_images[group.i] \notin processed
    /\ group' = GroupStep(group, sorted_images, image_hashes, threshold)
    /\ pc' = pc
    /\ GroupFrame

\* Lines 182-184: the inner loop reaches an image claimed as a duplicate.
PassProcessed ==
    /\ pc = "group" /\ group.at = "inner"
    /\ group.scan <= Len(sorted_images)
    /\ sorted_images[group.scan] \in processed
    /\ group' = GroupStep(group, sorted_images, image_hashes, threshold)
    /\ pc' = pc
    /\ GroupFrame

\* Lines 182-196: the inner loop compares an unclaimed image with img1.
CompareHashes ==
    /\ pc = "group" /\ group.at = "inner"
    /\ group.scan <= Len(sorted_images)
    /\ sorted_images[group.scan] \notin processed
    /\ group' = GroupStep(group, sorted_images, image_hashes, threshold)
    /\ pc' = pc
    /\ GroupFrame

\* Line 182: the inner loop is over.
EndScan ==
    /\ pc = "group" /\ group.at = "inner"
    /\ group.scan > Len(sorted_images)
    /\ group' = GroupStep(group, sorted_images, image_hashes, threshold)
    /\ pc' = pc
    /\ GroupFrame

\* Line 172: the outer loop is over, the copying starts.
EndGrouping ==
    /\ pc = "group" /\ group.at = "outer"
    /\ group.i > Len(sorted_images)
    /\ group' = GroupStep(group, sorted_images, image_hashes, threshold)
    /\ pc' = "copy_kept"
    /\ GroupFrame

\* The names of the files of the duplicates directory: what the name is
\* built from, for the original orig and its duplicate dup.
KeptName(orig) == <<orig, "KEPT", orig>>
ExcludedName(orig, dup) == <<orig, "EXCLUDED", dup>>
KeptSideName(orig, side) == <<orig, "KEPT_" \o side, orig>>
ExcludedSideName(orig, dup, side) == <<orig, "EXCLUDED_" \o side, dup>>

\* CopyKept with a fault: every hashed front is copied, not only the kept.
CopyKept_all ==
    /\ pc = "copy_kept"
    /\ output_fronts' = output_fronts \cup Range(sorted_images)
    /\ output_enhanced' = output_enhanced \cup (kept_files \cap input_enhanced)
    /\ output_backs' = output_backs \cup (kept_files \cap input_backs)
    /\ pc' = "copy_duplicates"
    /\ UNCHANGED <<files, upper, threshold, front_images, hash_pos,
                   image_hashes, sorted_images, group, duplicates_dir, returned,
                   input_enhanced, input_backs, otherVars>>

\* Lines 198-214: every kept front is copied to the output fronts, and
\* with it the enhanced front and the back of its stem where they exist.
CopyKept ==
    /\ pc = "copy_kept"
    /\ output_fronts' = output_fronts \cup kept_files
    /\ output_enhanced' = output_enhanced \cup (kept_files \cap input_enhanced)
    /\ output_backs' = output_backs \cup (kept_files \cap input_backs)
    /\ pc' = "copy_duplicates"
    /\ UNCHANGED <<files, upper, threshold, front_images, hash_pos,
                   image_hashes, sorted_images, group, duplicates_dir, returned,
                   input_enhanced, input_backs, otherVars>>

\* Lines 219-253: what one duplicate and its original put in the
\* duplicates directory.
ReviewCopies(dup, orig) ==
    {KeptName(orig), ExcludedName(orig, dup)}
    \cup (IF dup \in input_enhanced
           THEN {ExcludedSideName(orig, dup, "enhanced")} ELSE {})
    \cup (IF dup \in input_backs
           THEN {ExcludedSideName(orig, dup, "back")} ELSE {})
    \cup (IF orig \in input_enhanced
           THEN {KeptSideName(orig, "enhanced")} ELSE {})
    \cup (IF orig \in input_backs
           THEN {KeptSideName(orig, "back")} ELSE {})

\* Lines 216-253: for every duplicate, the original and the duplicate are
\* copied to the duplicates directory under their review names, and so are
\* their enhanced fronts and backs where they exist.
CopyDuplicates ==
    /\ pc = "copy_duplicates"
    /\ duplicates_dir' = duplicates_dir
         \cup UNION {ReviewCopies(d, duplicate_files[d]) :
                        d \in DOMAIN duplicate_files}
    /\ pc' = "return"
    /\ UNCHANGED <<files, upper, threshold, front_images, hash_pos,
                   image_hashes, sorted_images, group, output_fronts, returned,
                   sideVars, otherVars>>

\* Lines 255-259: the statistics go back to the command.
Return ==
    /\ pc = "return"
    /\ returned' = <<[total |-> Len(front_images),
                      kept |-> Cardinality(kept_files),
                      duplicates |-> Cardinality(DOMAIN duplicate_files)]>>
    /\ pc' = "done"
    /\ UNCHANGED <<files, upper, threshold, front_images, hash_pos,
                   image_hashes, sorted_images, group, output_fronts,
                   duplicates_dir>>
    /\ UNCHANGED <<sideVars, otherVars>>

Next ==
    \/ ListImages
    \/ HashImage
    \/ SortImages
    \/ SkipProcessed
    \/ KeepOriginal
    \/ PassProcessed
    \/ CompareHashes
    \/ EndScan
    \/ EndGrouping
    \/ CopyKept
    \/ CopyDuplicates
    \/ Return

Spec == Init /\ [][Next]_vars

\* The runs over directories of up to MoreImages readable *.jpg images,
\* with the thresholds the command documents.
InitMore ==
    /\ \E n \in 0 .. MoreImages : files \in [1 .. n -> Fingerprints]
    /\ upper = {}
    /\ threshold \in 0 .. MaxThreshold
    /\ pc = "list"
    /\ front_images = <<>>
    /\ hash_pos = 1
    /\ image_hashes = <<>>
    /\ sorted_images = <<>>
    /\ group = GroupStart
    /\ output_fronts = {}
    /\ duplicates_dir = {}
    /\ returned = <<>>
    /\ input_enhanced = {} /\ input_backs = {}
    /\ output_enhanced = {} /\ output_backs = {}
    /\ OthersIdle

SpecMore == InitMore /\ [][Next]_vars

\* The fingerprints of the runs that follow the copies: 0000, 0001, 1111.
CopyFingerprints == {0, 1, 15}

\* The runs over directories of readable *.jpg images of which at most one
\* has an enhanced front and at most one a back.
InitCopy ==
    /\ \E n \in 0 .. MaxImages :
         /\ files \in [1 .. n -> CopyFingerprints]
         /\ input_enhanced \in {e \in SUBSET (1 .. n) : Cardinality(e) <= 1}
         /\ input_backs \in {b \in SUBSET (1 .. n) : Cardinality(b) <= 1}
    /\ upper = {}
    /\ threshold \in 0 .. MaxThreshold
    /\ pc = "list"
    /\ front_images = <<>>
    /\ hash_pos = 1
    /\ image_hashes = <<>>
    /\ sorted_images = <<>>
    /\ group = GroupStart
    /\ output_fronts = {}
    /\ duplicates_dir = {}
    /\ returned = <<>>
    /\ output_enhanced = {} /\ output_backs = {}
    /\ OthersIdle

SpecCopy == InitCopy /\ [][Next]_vars

\* The function runs in one thread with nothing to wait for: a step that
\* can be taken is taken.
FairSpec == Spec /\ WF_vars(Next)

TypeOK ==
    /\ pc \in {"list", "hash", "group", "copy_kept", "copy_duplicates",
                "return", "done"}
    /\ threshold \in Thresholds
    /\ kept_files \subseteq DOMAIN files
    /\ processed \subseteq DOMAIN files

\* ------------------------------------------------------------------------
\* What the claims speak of.

\* The grouping pass has just ended.
GroupingEnds == pc = "copy_kept"

\* The grouping pass is over.
Grouped == pc \in {"copy_kept", "copy_duplicates", "return", "done"}

\* The images that were hashed.
Hashed == Range(Keys(image_hashes))

\* The images that could not be hashed.
Failed == {x \in DOMAIN files : files[x] = Unreadable}

\* The representative of the group a hashed image is in.
Representative(x) ==
    IF x \in DOMAIN duplicate_files THEN duplicate_files[x] ELSE x

\* The result of the pass, as GroupingPass returns it.
Partition ==
    [kept_files |-> kept_files, duplicate_files |-> duplicate_files]

\* A whole run up to the end of grouping, as a function of its inputs.
DedupOf(content, uppercase, t) ==
    GroupingPass(
        HashFrom(<<>>, ListFronts(Ascending(DOMAIN content), uppercase), content),
        t)

\* The files without one of them (the paths stay what they are).
Without(x) == [y \in DOMAIN files \ {x} |-> files[y]]

FirstGroup(part, first) ==
    {d \in DOMAIN part.duplicate_files : part.duplicate_files[d] = first}

\* C1: once grouping is over, every hashed image is either in kept_files
\* or a key of duplicate_files, never both and never neither, whatever
\* the threshold.
C1_ExactlyOneRole ==
    Grouped =>
        \A x \in Hashed :
            (x \in kept_files) # (x \in DOMAIN duplicate_files)

C1_Witness ==
    /\ Grouped
    /\ Cardinality(Hashed) >= 3
    /\ Cardinality(kept_files) >= 2
    /\ DOMAIN duplicate_files # {}

\* C2: once grouping is over, every value of duplicate_files is in
\* kept_files and no kept file is a key of duplicate_files.
C2_DuplicatesPointToKept ==
    Grouped =>
        /\ \A d \in DOMAIN duplicate_files : duplicate_files[d] \in kept_files
        /\ kept_files \cap DOMAIN duplicate_files = {}

C2_Witness ==
    /\ Grouped
    /\ Cardinality(kept_files) >= 2
    /\ \E d \in DOMAIN duplicate_files : duplicate_files[d] = Max(kept_files)

\* C3 as claimed: for the same hashed images, no threshold below the one
\* of the run finds more duplicates than the run did.
C3_MonotoneCount ==
    GroupingEnds =>
        \A t1 \in 0 .. threshold :
            Cardinality(DOMAIN GroupingPass(image_hashes, t1).duplicate_files)
                <= Cardinality(DOMAIN duplicate_files)

\* C3 as amended: for the same hashed images and every threshold t1 below
\* the one of the run, the duplicates of the smallest image at t1 are
\* duplicates of it in the run, the run finds a duplicate when t1 finds
\* one, and with at most three hashed images t1 finds no more duplicates
\* than the run.
C3_MonotoneFirstGroup ==
    GroupingEnds =>
        \A t1 \in 0 .. threshold :
            LET low == GroupingPass(image_hashes, t1)
            IN  /\ Hashed # {} =>
                     FirstGroup(low, SetMin(Hashed))
                         \subseteq FirstGroup(Partition, SetMin(Hashed))
                /\ DOMAIN low.duplicate_files # {}
                     => DOMAIN duplicate_files # {}
                /\ Cardinality(Hashed) <= 3 =>
                     Cardinality(DOMAIN low.duplicate_files)
                         <= Cardinality(DOMAIN duplicate_files)

C3_Witness ==
    /\ GroupingEnds
    /\ threshold = 3
    /\ Cardinality(DOMAIN duplicate_files) = 1
    /\ Cardinality(DOMAIN GroupingPass(image_hashes, 2).duplicate_files) = 2

\* C4: a run with a negative threshold hashes nothing, groups nothing,
\* copies nothing and returns no statistics.
C4_NegativeThresholdRejected ==
    threshold < 0 =>
        /\ image_hashes = <<>>
        /\ kept_files = {}
        /\ output_fronts = {}
        /\ duplicates_dir = {}
        /\ returned = <<>>

\* C5: with threshold 0, two hashed images are in the same group exactly
\* when their fingerprints are equal.
C5_ExactModeGroupsEqualHashes ==
    (Grouped /\ threshold = 0) =>
        \A a, b \in Hashed :
            (Representative(a) = Representative(b))
                <=> (Lookup(image_hashes, a) = Lookup(image_hashes, b))

C5_Witness ==
    /\ Grouped
    /\ threshold = 0
    /\ \E a, b \in Hashed :
         a # b /\ Lookup(image_hashes, a) = Lookup(image_hashes, b)
    /\ \E a, b \in Hashed :
         Distance(Lookup(image_hashes, a), Lookup(image_hashes, b)) = 1

\* C6: the grouping pass gives the result of the run for every order the
\* same (path, hash) pairs can come in.
C6_OrderIndependent ==
    GroupingEnds =>
        \A order \in Enumerations(DOMAIN image_hashes) :
            GroupingPass([n \in DOMAIN image_hashes |-> image_hashes[order[n]]],
                         threshold) = Partition

C6_Witness ==
    /\ GroupingEnds
    /\ Len(image_hashes) >= 3
    /\ Keys(image_hashes) # sorted_images
    /\ DOMAIN duplicate_files # {}
    /\ Cardinality(kept_files) >= 2

\* C7: for A (0000), B (0001) and C (1111), threshold 1 gives the kept set
\* {A, C} and the duplicates {B -> A}; threshold 0 gives the kept set
\* {A, B, C} and no duplicates.
C7_Example ==
    (Grouped /\ files = <<0, 1, 15>>) =>
        /\ threshold = 1 =>
             (kept_files = {1, 3} /\ duplicate_files = (2 :> 1))
        /\ threshold = 0 =>
             (kept_files = {1, 2, 3} /\ duplicate_files = <<>>)

C7_Witness ==
    /\ Grouped
    /\ files = <<0, 1, 15>>
    /\ threshold = 1
    /\ duplicate_files = (2 :> 1)

\* C8: an image that cannot be hashed is neither kept nor a duplicate, the
\* run reaches the end of grouping, and its result is the result of a run
\* over the directory without that image.
C8_FailedImageDropped ==
    GroupingEnds =>
        \A x \in Failed :
            /\ x \notin kept_files
            /\ x \notin DOMAIN duplicate_files
            /\ \A d \in DOMAIN duplicate_files : duplicate_files[d] # x
            /\ DedupOf(Without(x), upper \ {x}, threshold) = Partition

C8_Witness ==
    /\ GroupingEnds
    /\ \E x \in Failed : \E y, z \in Hashed : y < x /\ x < z
    /\ DOMAIN duplicate_files # {}

\* C9: a representative sorts strictly before each of its duplicates, and
\* the smallest hashed image is a representative.
C9_FirstInOrderWins ==
    Grouped =>
        /\ \A d \in DOMAIN duplicate_files : duplicate_files[d] < d
        /\ Hashed # {} => SetMin(Hashed) \in kept_files

C9_Witness ==
    /\ Grouped
    /\ upper # {}
    /\ Keys(image_hashes) # sorted_images
    /\ \E d \in DOMAIN duplicate_files : duplicate_files[d] # SetMin(Hashed)

\* The hashed images a < b < c form a chain at threshold t.
Chain(a, b, c, t) ==
    /\ a < b /\ b < c
    /\ Distance(Lookup(image_hashes, a), Lookup(image_hashes, b)) <= t
    /\ Distance(Lookup(image_hashes, b), Lookup(image_hashes, c)) <= t
    /\ Distance(Lookup(image_hashes, a), Lookup(image_hashes, c)) > t

Outputs == <<output_fronts, output_enhanced, output_backs, duplicates_dir>>

\* The hashing loop has gone through every listed image.
AllHashed ==
    /\ hash_pos > Len(front_images)
    /\ Hashed \cup Failed = DOMAIN files

\* n(n-1)/2 for the n hashed images.
AllPairs == (Len(image_hashes) * (Len(image_hashes) - 1)) \div 2

\* C11: every run reaches the end of the grouping pass, and at its end
\* the processed set is the set of hashed images.
C11_GroupingTerminates ==
    /\ <>Grouped
    /\ [](Grouped => processed = Hashed)

C11_Witness ==
    /\ GroupingEnds
    /\ processed = Hashed
    /\ Cardinality(Hashed) = MaxImages
    /\ DOMAIN duplicate_files # {}
    /\ Cardinality(kept_files) >= 2

\* C12: when the copies are made, the output fronts hold exactly the kept
\* images (with their enhanced fronts and backs where they exist) and no
\* duplicate; the duplicates directory holds R_KEPT and R_EXCLUDED_D for
\* every duplicate D of R, and no R_KEPT for a kept R without duplicates.
C12_CopiesFollowPartition ==
    pc \in {"return", "done"} =>
        /\ output_fronts = kept_files
        /\ output_fronts \cap DOMAIN duplicate_files = {}
        /\ output_enhanced = kept_files \cap input_enhanced
        /\ output_backs = kept_files \cap input_backs
        /\ \A d \in DOMAIN duplicate_files :
               /\ KeptName(duplicate_files[d]) \in duplicates_dir
               /\ ExcludedName(duplicate_files[d], d) \in duplicates_dir
        /\ \A r \in kept_files :
               (\A d \in DOMAIN duplicate_files : duplicate_files[d] # r)
                   => KeptName(r) \notin duplicates_dir

C12_Witness ==
    /\ pc = "done"
    /\ \E r \in kept_files : \E d \in DOMAIN duplicate_files :
           duplicate_files[d] = r
    /\ \E r \in kept_files : \A d \in DOMAIN duplicate_files :
           duplicate_files[d] # r
    /\ output_enhanced # {}
    /\ input_backs \cap DOMAIN duplicate_files # {}

\* C13: a comparison is made only when every listed image was hashed or
\* dropped; a file is written only when the grouping loops are over, and
\* from the first file written the partition stays what it is; no step
\* of the grouping loops writes a file.
C13_PhasesOrdered ==
    [][ /\ group'.comparisons # group.comparisons => AllHashed
        /\ Outputs' # Outputs => (group.at = "end" /\ group' = group)
        /\ Outputs # <<{}, {}, {}, {}>> => group' = group
        /\ pc = "group" => Outputs' = Outputs ]_vars

C13_Witness ==
    /\ pc = "done"
    /\ Failed # {}
    /\ group.comparisons # <<>>
    /\ output_fronts # {}
    /\ duplicates_dir # {}

\* C20: the pass makes at most n(n-1)/2 comparisons for n hashed images,
\* exactly n(n-1)/2 when it finds no duplicate, and every comparison is of
\* the image just kept with an unprocessed image that sorts after it.
C20_ComparisonCount ==
    /\ [](Len(group.comparisons) <= AllPairs)
    /\ []((Grouped /\ DOMAIN duplicate_files = {})
            => Len(group.comparisons) = AllPairs)
    /\ [][group'.comparisons # group.comparisons =>
            /\ Len(group'.comparisons) = Len(group.comparisons) + 1
            /\ LET c == group'.comparisons[Len(group'.comparisons)]
               IN  /\ c[1] = sorted_images[group.i]
                   /\ c[1] \in kept_files
                   /\ c[2] \notin processed
                   /\ c[1] < c[2] ]_vars

C20_Witness ==
    /\ Grouped
    /\ Len(image_hashes) = MaxImages
    /\ DOMAIN duplicate_files = {}
    /\ Len(group.comparisons) = AllPairs


\* ------------------------------------------------------------------------
\* The reorganize command: reorganize_fast_foto.

\* The most *.jpg files under fast_foto_dir.
MaxFiles == 3

\* The directories under fast_foto_dir.
Dirs == {"d1", "d2"}

\* The stems of the files, character by character: p, p_a, p_b, p_0, "p 0".
Stems == {<<"p">>, <<"p", "_", "a">>, <<"p", "_", "b">>,
          <<"p", "_", "0">>, <<"p", " ", "0">>}

\* The files there can be under fast_foto_dir.
SourceFiles == [dir : Dirs, stem : Stems]

\* Lines 28-30.
OutDirs == {"fronts", "enhanced_fronts", "backs"}

\* str.endswith.
EndsWith(stem, suffix) ==
    /\ Len(stem) >= Len(suffix)
    /\ SubSeq(stem, Len(stem) - Len(suffix) + 1, Len(stem)) = suffix

\* Lines 58-66 with a fault: every file is taken for a front.
file_type_front(stem) == "front"

\* Lines 58-66: the type of a file.
file_type(stem) ==
    IF EndsWith(stem, <<"_", "a">>) THEN "enhanced_front"
    ELSE IF EndsWith(stem, <<"_", "b">>) THEN "back"
    ELSE "front"

\* str.replace(" ", "_").
Underscored(name) ==
    [k \in 1 .. Len(name) |-> IF name[k] = " " THEN "_" ELSE name[k]]

\* Lines 58-69: the base name of a file.
base_name(stem) ==
    Underscored(IF \/ EndsWith(stem, <<"_", "a">>)
                   \/ EndsWith(stem, <<"_", "b">>)
                THEN SubSeq(stem, 1, Len(stem) - 2)
                ELSE stem)

\* The decimal digits.
Digits == <<"0", "1", "2", "3", "4", "5", "6", "7", "8", "9">>

RECURSIVE Decimal(_)
\* The format of an int in an f-string.
Decimal(n) ==
    IF n < Len(Digits) THEN <<Digits[n + 1]>>
    ELSE Decimal(n \div Len(Digits)) \o <<Digits[(n % Len(Digits)) + 1]>>

\* Line 50: the entry of a parent directory is made when it is first read.
WithParent(fg, parent_dir) ==
    IF \E k \in 1 .. Len(fg) : fg[k].parent = parent_dir THEN fg
    ELSE Append(fg, [parent |-> parent_dir, bases |-> <<>>])

\* Line 50: the entry of a base name is made when it is first read.
WithBase(bases, base) ==
    IF \E k \in 1 .. Len(bases) : bases[k].base = base THEN bases
    ELSE Append(bases, [base |-> base, files |-> <<>>])

\* Line 73: file_groups[parent_dir][base_name][file_type] = jpg_file. The
\* dictionaries keep the order in which their keys were first stored.
Store(fg, jpg_file) ==
    LET base == base_name(jpg_file.stem)
        type == file_type(jpg_file.stem)
        fg1 == WithParent(fg, jpg_file.dir)
        k == CHOOSE k \in 1 .. Len(fg1) : fg1[k].parent = jpg_file.dir
        bases == WithBase(fg1[k].bases, base)
        j == CHOOSE j \in 1 .. Len(bases) : bases[j].base = base
    IN  [fg1 EXCEPT ![k].bases =
             [bases EXCEPT ![j].files =
                  [t \in DOMAIN @ \cup {type} |->
                       IF t = type THEN jpg_file ELSE @[t]]]]

RECURSIVE Flatten(_)
\* Lines 76-79.
Flatten(fg) ==
    IF fg = <<>> THEN <<>>
    ELSE fg[1].bases \o Flatten(Tail(fg))

\* Lines 82-84.
Counts(groups) ==
    [base \in {groups[k].base : k \in 1 .. Len(groups)} |->
        Cardinality({k \in 1 .. Len(groups) : groups[k].base = base})]

\* The value of a defaultdict(int) at a key.
Counter(counters, key) ==
    IF key \in DOMAIN counters THEN counters[key] ELSE 0

\* Lines 91-96 with a fault: the counter is never added.
unique_base_name_plain(base, counts, counters) == base

\* Lines 91-96.
unique_base_name(base, counts, counters) ==
    IF counts[base] > 1
    THEN base \o <<"_">> \o Decimal(Counter(counters, base))
    ELSE base

\* Lines 100-112: the directory the file of a type is copied to.
TypeDir(type) ==
    IF type = "front" THEN "fronts"
    ELSE IF type = "enhanced_front" THEN "enhanced_fronts"
    ELSE "backs"

\* Lines 99-112: the copies of one group, front first.
Copies(typed, unique) ==
    LET CopyOf(type) ==
            IF type \in DOMAIN typed
            THEN <<[dir |-> TypeDir(type), name |-> unique,
                    source |-> typed[type]]>>
            ELSE <<>>
    IN  CopyOf("front") \o CopyOf("enhanced_front") \o CopyOf("back")


\* No dedup command is run.
DedupIdle ==
    /\ files = <<>>
    /\ upper = {}
    /\ threshold = 0
    /\ pc = "done"
    /\ front_images = <<>>
    /\ hash_pos = 1
    /\ image_hashes = <<>>
    /\ sorted_images = <<>>
    /\ group = GroupStart
    /\ output_fronts = {}
    /\ duplicates_dir = {}
    /\ returned = <<>>
    /\ input_enhanced = {} /\ input_backs = {}
    /\ output_enhanced = {} /\ output_backs = {}

\* The reorganize command is started on a tree of up to MaxFiles files; each
\* output directory is missing, empty or holds files.
InitReorg ==
    /\ fast_foto_tree \in {t \in SUBSET SourceFiles : Cardinality(t) <= MaxFiles}
    /\ out_old \in SUBSET OutDirs
    /\ out_exists \in {e \in SUBSET OutDirs : out_old \subseteq e}
    /\ reorg_pc = "check"
    /\ jpg_files = <<>>
    /\ file_pos = 1
    /\ file_groups = <<>>
    /\ all_groups = <<>>
    /\ basename_counts = <<>>
    /\ counter_per_basename = <<>>
    /\ group_pos = 1
    /\ copied = <<>>
    /\ reorg_error = "none"
    /\ DedupIdle
    /\ WebIdle
    /\ FaceIdle

\* Line 33 with a fault: only the fronts directory is looked at.
CheckedDirs_fronts == {"fronts"}

\* Line 33: the directories that must be empty.
CheckedDirs == OutDirs

\* Lines 33-38: a directory that exists and holds files ends the run.
ReorgCheck ==
    /\ reorg_pc = "check"
    /\ IF \E dir_path \in CheckedDirs :
            dir_path \in out_exists /\ dir_path \in out_old
       THEN reorg_error' = "ValueError" /\ reorg_pc' = "raised"
       ELSE reorg_error' = reorg_error /\ reorg_pc' = "mkdir"
    /\ UNCHANGED <<fast_foto_tree, out_exists, out_old, jpg_files, file_pos,
                   file_groups, all_groups, basename_counts,
                   counter_per_basename, group_pos, copied>>
    /\ UNCHANGED exceptReorg

\* Lines 41-43.
ReorgMakeDirs ==
    /\ reorg_pc = "mkdir"
    /\ out_exists' = out_exists \cup OutDirs
    /\ reorg_pc' = "list"
    /\ UNCHANGED <<fast_foto_tree, out_old, jpg_files, file_pos, file_groups,
                   all_groups, basename_counts, counter_per_basename,
                   group_pos, copied, reorg_error>>
    /\ UNCHANGED exceptReorg

\* Line 46: the tree is listed in whatever order the file system gives
\* (a file may be named *.jpg or *.JPG, so no order is excluded).
ReorgList ==
    /\ reorg_pc = "list"
    /\ jpg_files' \in Enumerations(fast_foto_tree)
    /\ reorg_pc' = "group"
    /\ UNCHANGED <<fast_foto_tree, out_exists, out_old, file_pos, file_groups,
                   all_groups, basename_counts, counter_per_basename,
                   group_pos, copied, reorg_error>>
    /\ UNCHANGED exceptReorg

\* Lines 52-73: one turn of the loop over jpg_files.
ReorgGroupFile ==
    /\ reorg_pc = "group"
    /\ file_pos <= Len(jpg_files)
    /\ file_groups' = Store(file_groups, jpg_files[file_pos])
    /\ file_pos' = file_pos + 1
    /\ UNCHANGED <<fast_foto_tree, out_exists, out_old, reorg_pc, jpg_files,
                   all_groups, basename_counts, counter_per_basename,
                   group_pos, copied, reorg_error>>
    /\ UNCHANGED exceptReorg

\* Lines 76-87: after the loop the groups are listed and counted.
ReorgFlatten ==
    /\ reorg_pc = "group"
    /\ file_pos > Len(jpg_files)
    /\ all_groups' = Flatten(file_groups)
    /\ basename_counts' = Counts(Flatten(file_groups))
    /\ counter_per_basename' = <<>>
    /\ reorg_pc' = "copy"
    /\ UNCHANGED <<fast_foto_tree, out_exists, out_old, jpg_files, file_pos,
                   file_groups, group_pos, copied, reorg_error>>
    /\ UNCHANGED exceptReorg

\* Lines 89-112: one turn of the loop over all_groups.
ReorgCopyGroup ==
    /\ reorg_pc = "copy"
    /\ group_pos <= Len(all_groups)
    /\ LET base == all_groups[group_pos].base
       IN  /\ copied' = copied \o
                 Copies(all_groups[group_pos].files,
                        unique_base_name(base, basename_counts,
                                         counter_per_basename))
           /\ counter_per_basename' =
                 IF basename_counts[base] > 1
                 THEN [b \in DOMAIN counter_per_basename \cup {base} |->
                          IF b = base
                          THEN Counter(counter_per_basename, base) + 1
                          ELSE counter_per_basename[b]]
                 ELSE counter_per_basename
    /\ group_pos' = group_pos + 1
    /\ UNCHANGED <<fast_foto_tree, out_exists, out_old, reorg_pc, jpg_files,
                   file_pos, file_groups, all_groups, basename_counts,
                   reorg_error>>
    /\ UNCHANGED exceptReorg

\* Line 112: the function returns after the last group.
ReorgReturn ==
    /\ reorg_pc = "copy"
    /\ group_pos > Len(all_groups)
    /\ reorg_pc' = "done"
    /\ UNCHANGED <<fast_foto_tree, out_exists, out_old, jpg_files, file_pos,
                   file_groups, all_groups, basename_counts,
                   counter_per_basename, group_pos, copied, reorg_error>>
    /\ UNCHANGED exceptReorg

ReorgNext ==
    \/ ReorgCheck
    \/ ReorgMakeDirs
    \/ ReorgList
    \/ ReorgGroupFile
    \/ ReorgFlatten
    \/ ReorgCopyGroup
    \/ ReorgReturn

SpecReorg == InitReorg /\ [][ReorgNext]_vars


\* Lines 15-18: where the docstring sends a file.
Destination(stem) ==
    IF EndsWith(stem, <<"_", "a">>) THEN "enhanced_fronts"
    ELSE IF EndsWith(stem, <<"_", "b">>) THEN "backs"
    ELSE "fronts"

\* Two files of one group: same directory, same base name.
SameGroup(f1, f2) ==
    f1.dir = f2.dir /\ base_name(f1.stem) = base_name(f2.stem)

\* C14: when an output directory exists and holds files, the run ends with
\* ValueError at the check, and no step of it makes a directory or copies
\* a file.
C14_NonEmptyOutputRejected ==
    /\ []((reorg_pc # "check" /\ out_old # {}) =>
              /\ reorg_error = "ValueError"
              /\ reorg_pc = "raised"
              /\ copied = <<>>)
    /\ [][out_old # {} => (out_exists' = out_exists /\ copied' = copied)]_vars

\* A run was refused for the files in backs alone, with files to copy and
\* directories still to make.
C14_Witness ==
    /\ reorg_pc = "raised"
    /\ reorg_error = "ValueError"
    /\ out_old = {"backs"}
    /\ out_exists = {"backs"}
    /\ fast_foto_tree # {}

\* C15: every copy goes to the directory of its source's stem (_a to
\* enhanced_fronts, _b to backs, any other to fronts), the copies of one
\* group bear one output name, and at the end every file that is the only
\* one of its group and type has been copied once.
C15_RoutedByStem ==
    /\ \A k \in 1 .. Len(copied) :
         /\ copied[k].source \in fast_foto_tree
         /\ copied[k].dir = Destination(copied[k].source.stem)
    /\ \A k1, k2 \in 1 .. Len(copied) :
         SameGroup(copied[k1].source, copied[k2].source) =>
             copied[k1].name = copied[k2].name
    /\ reorg_pc = "done" =>
         \A f \in fast_foto_tree :
             (\A g \in fast_foto_tree :
                  (SameGroup(f, g) /\ Destination(g.stem) = Destination(f.stem))
                      => g = f)
             => Cardinality({k \in 1 .. Len(copied) : copied[k].source = f}) = 1

\* A front, its enhanced front and its back were copied under one name.
C15_Witness ==
    /\ reorg_pc = "done"
    /\ Len(copied) = 3
    /\ {copied[k].dir : k \in 1 .. Len(copied)} = OutDirs
    /\ \A k \in 1 .. Len(copied) : copied[k].name = <<"p">>


\* ------------------------------------------------------------------------
\* The image endpoint of the browsing API: serve_image, get_image_path and
\* validate_path. An absolute path is the sequence of its components.

\* COLLECTION_IMAGE_DIR.
BaseDir == <<"srv", "img">>

\* An image of the collection c, version c.
AnImage == BaseDir \o <<"c", "c", "fronts", "f.jpg">>

\* A file outside the collections.
ASecret == <<"etc", "passwd">>

\* A link inside BaseDir that leads out of it.
ALink == [path \in {BaseDir \o <<"out">>} |-> <<"etc">>]

\* A relative and an absolute argument.
Rel(names) == [absolute |-> FALSE, names |-> names]
Abs(names) == [absolute |-> TRUE, names |-> names]

\* The collection names and versions that are asked for.
NameParts == {Rel(<<"c">>), Rel(<<"..">>), Rel(<<".">>), Rel(<<"out">>),
              Abs(<<"etc">>)}

\* The file names that are asked for.
FilenameParts == {Rel(<<"f.jpg">>), Rel(<<"..">>), Abs(ASecret),
                  Rel(<<"..", "..", "..", "..", "..", "..", "etc", "passwd">>)}

\* Line 157: the photo types there are.
PhotoTypes == {"enhanced_fronts", "fronts", "backs"}

\* The photo types that are asked for.
TypeParts == PhotoTypes \cup {"thumbs", ".."}

\* Lines 100-101 of photos.py: the sizes there are.
Sizes == {"thumb", "medium", "full"}

RECURSIVE Joined(_, _)
\* base_dir / Path(*parts): an absolute part drops what is before it.
Joined(path, parts) ==
    IF parts = <<>> THEN path
    ELSE Joined(IF parts[1].absolute THEN parts[1].names
                ELSE path \o parts[1].names,
                Tail(parts))

RECURSIVE ResolveFrom(_, _, _)
\* Path.resolve, component by component: "." is dropped, ".." leaves the
\* directory reached so far (the root is its own parent), a link is
\* followed as soon as it is reached.
ResolveFrom(reached, rest, links) ==
    IF rest = <<>> THEN reached
    ELSE IF Head(rest) = "." THEN ResolveFrom(reached, Tail(rest), links)
    ELSE IF Head(rest) = ".."
         THEN ResolveFrom(IF reached = <<>> THEN <<>>
                          ELSE SubSeq(reached, 1, Len(reached) - 1),
                          Tail(rest), links)
    ELSE LET next == Append(reached, Head(rest))
         IN  ResolveFrom(IF next \in DOMAIN links THEN links[next] ELSE next,
                         Tail(rest), links)

\* Path.resolve.
Resolve(path, links) == ResolveFrom(<<>>, path, links)

\* PurePath.relative_to succeeds: base is a prefix of path, by components.
IsRelativeTo(path, base) ==
    /\ Len(path) >= Len(base)
    /\ SubSeq(path, 1, Len(base)) = base

\* Path.exists: a file, or a directory that holds one.
Exists(path, disk) == \E f \in disk : IsRelativeTo(f, path)

\* Lines 214-242 with a fault: the resolved path is not compared with the
\* base directory.
validate_path_unchecked(base_dir, parts, links) ==
    [raised |-> "none", path |-> Resolve(Joined(base_dir, parts), links)]

\* Lines 214-242: validate_path.
validate_path(base_dir, parts, links) ==
    LET resolved == Resolve(Joined(base_dir, parts), links)
        base_resolved == Resolve(base_dir, links)
    IN  IF IsRelativeTo(resolved, base_resolved)
        THEN [raised |-> "none", path |-> resolved]
        ELSE [raised |-> "ValueError", path |-> <<>>]

\* The parts get_image_path hands to validate_path (lines 161-166).
PartsOf(args) ==
    <<args.collection_name, args.version, Rel(<<args.photo_type>>),
      args.filename>>

\* Lines 133-172: get_image_path.
get_image_path(args, disk, links) ==
    IF args.photo_type \notin PhotoTypes
    THEN [raised |-> "ValueError", path |-> <<>>]
    ELSE LET image_path == validate_path(BaseDir, PartsOf(args), links)
         IN  IF image_path.raised # "none" THEN image_path
             ELSE IF ~Exists(image_path.path, disk)
                  THEN [raised |-> "FileNotFoundError", path |-> <<>>]
                  ELSE image_path


\* The browsing API is started over a disk and waits for image requests.
InitImg ==
    /\ img_disk \in SUBSET {AnImage, ASecret}
    /\ img_links \in {<<>>, ALink}
    /\ img_args = <<>>
    /\ img_pc = "idle"
    /\ img_result = <<>>
    /\ img_status = 0
    /\ DedupIdle
    /\ ReorgIdle
    /\ ListIdle
    /\ AppIdle
    /\ FaceIdle

\* A request for an image arrives (photos.py, line 78). The requests share
\* no state but the disk, which they do not change: a run follows one.
ImageRequest ==
    /\ img_pc = "idle"
    /\ \E collection_name \in NameParts, version \in NameParts,
          photo_type \in TypeParts, filename \in FilenameParts,
          size \in Sizes \cup {"huge"} :
         img_args' = [collection_name |-> collection_name,
                      version |-> version, photo_type |-> photo_type,
                      filename |-> filename, size |-> size]
    /\ img_pc' = "size"
    /\ img_result' = <<>>
    /\ img_status' = 0
    /\ UNCHANGED <<img_disk, img_links>>
    /\ UNCHANGED exceptImg

\* photos.py, lines 95-104: a size that does not exist is answered with 400.
ImageCheckSize ==
    /\ img_pc = "size"
    /\ IF img_args.size \notin Sizes
       THEN img_status' = 400 /\ img_pc' = "responded"
       ELSE img_status' = img_status /\ img_pc' = "path"
    /\ UNCHANGED <<img_disk, img_links, img_args, img_result>>
    /\ UNCHANGED exceptImg

\* photos.py, lines 106-113: the call of get_image_path.
ImageGetPath ==
    /\ img_pc = "path"
    /\ img_result' = get_image_path(img_args, img_disk, img_links)
    /\ img_pc' = "serve"
    /\ UNCHANGED <<img_disk, img_links, img_args, img_status>>
    /\ UNCHANGED exceptImg

\* photos.py, lines 115-129: the image is sent, or the exception is turned
\* into a status. Reading the image can fail (a directory, a file that is
\* no image).
ImageRespond ==
    /\ img_pc = "serve"
    /\ img_status' \in
         IF img_result.raised = "ValueError" THEN {400}
         ELSE IF img_result.raised = "FileNotFoundError" THEN {404}
         ELSE IF img_result.path \in img_disk THEN {200, 500}
         ELSE {500}
    /\ img_pc' = "responded"
    /\ UNCHANGED <<img_disk, img_links, img_args, img_result>>
    /\ UNCHANGED exceptImg

ImgNext ==
    \/ ImageRequest
    \/ ImageCheckSize
    \/ ImageGetPath
    \/ ImageRespond

SpecImg == InitImg /\ [][ImgNext]_vars

\* get_image_path has answered the request.
PathAnswered == img_pc \in {"serve", "responded"} /\ img_result # <<>>

\* The place the arguments of the request name.
Addressed == Resolve(Joined(BaseDir, PartsOf(img_args)), img_links)

\* C16 as stated: get_image_path returns a resolved path inside the base
\* directory or raises ValueError, and raises ValueError for a photo type
\* other than enhanced_fronts, fronts and backs.
C16_ReturnsInsideOrValueError ==
    PathAnswered =>
        /\ \/ /\ img_result.raised = "none"
              /\ IsRelativeTo(img_result.path, BaseDir)
           \/ img_result.raised = "ValueError"
        /\ img_args.photo_type \notin PhotoTypes
               => img_result.raised = "ValueError"

\* C16, amended: get_image_path never returns a path outside the base
\* directory. It returns the resolved place of an existing file inside it,
\* raises ValueError when the photo type is unknown or the place is outside,
\* and raises FileNotFoundError when the place is inside and does not exist.
C16_NeverOutsideBase ==
    PathAnswered =>
        /\ img_result.raised \in {"none", "ValueError", "FileNotFoundError"}
        /\ img_result.raised = "none" =>
               /\ IsRelativeTo(img_result.path, BaseDir)
               /\ img_result.path = Addressed
               /\ \A k \in 1 .. Len(img_result.path) :
                      img_result.path[k] \notin {".", ".."}
               /\ Exists(img_result.path, img_disk)
        /\ img_args.photo_type \notin PhotoTypes
               => img_result.raised = "ValueError"
        /\ (img_args.photo_type \in PhotoTypes
                /\ ~IsRelativeTo(Addressed, BaseDir))
               => img_result.raised = "ValueError"
        /\ img_result.raised = "FileNotFoundError" =>
               /\ IsRelativeTo(Addressed, BaseDir)
               /\ ~Exists(Addressed, img_disk)

\* A request for an existing file outside the base directory, named with
\* ".." components, was refused.
C16_Witness ==
    /\ PathAnswered
    /\ img_args.photo_type \in PhotoTypes
    /\ ".." \in Range(img_args.filename.names)
    /\ Addressed = ASecret
    /\ ASecret \in img_disk
    /\ img_result.raised = "ValueError"


\* ------------------------------------------------------------------------
\* The listing endpoint of the browsing API: list_photos of photos.py and
\* PhotoService.list_photos.

\* The most images in enhanced_fronts.
MaxListed == 3

\* photos.py, line 36: the largest limit.
MaxLimit == 100

\* The offsets and limits that are asked for.
Offsets == (0 - 1) .. (MaxListed + 1)
Limits == {0, 1, 2, MaxLimit, MaxLimit + 1}

\* The search queries that are asked for: none, or "q".
Queries == {"", "q"}

\* photos.py, lines 34-37 with a fault: no upper limit.
ValidPagination_unbounded(offset, limit) == offset >= 0 /\ limit >= 1

\* photos.py, lines 34-37: the request passes the two checks.
ValidPagination(offset, limit) ==
    /\ ~(offset < 0)
    /\ ~(limit < 1 \/ limit > MaxLimit)

\* An index of a Python slice, within a list of a length.
Clamp(index, length) ==
    IF index < 0 THEN Max({0, length + index}) ELSE SetMin({index, length})

\* s[start:stop] in Python.
Slice(s, start, stop) ==
    SubSeq(s, Clamp(start, Len(s)) + 1, Clamp(stop, Len(s)))

\* photo_service.py, lines 90-131: the dictionary list_photos returns for
\* the files the two globs gave.
list_photos(enumeration, uppercase, offset, limit, basenames) ==
    LET image_files == ListFronts(enumeration, uppercase)
        filtered == IF basenames.given
                    THEN Filter(image_files, basenames.names)
                    ELSE image_files
    IN  [status |-> 200,
         photos |-> Slice(filtered, offset, offset + limit),
         total |-> Len(filtered),
         offset |-> offset,
         limit |-> limit]

\* The browsing API is started over a collection (whole, or lacking a
\* directory or the VERSION file) and waits for listing requests.
InitList ==
    /\ col_missing \in {"none", "xmp_dir", "VERSION", "enhanced_fronts"}
    /\ col_images \in SUBSET (1 .. MaxListed)
    /\ col_upper \in {u \in SUBSET col_images : Cardinality(u) <= 1}
    /\ col_matches \in SUBSET (1 .. MaxListed)
    /\ list_args = <<>>
    /\ list_pc = "idle"
    /\ list_touched = FALSE
    /\ search_basenames = <<>>
    /\ list_response = <<>>
    /\ DedupIdle
    /\ ReorgIdle
    /\ ImgIdle
    /\ AppIdle
    /\ FaceIdle

\* A listing request arrives; offset and limit are parsed (photos.py,
\* lines 28-31). The requests share no state but the disk, which they do
\* not change: a run follows one.
ListRequest ==
    /\ list_pc = "idle"
    /\ \E offset \in Offsets, limit \in Limits, search \in Queries :
         list_args' = [offset |-> offset, limit |-> limit, search |-> search]
    /\ list_pc' = "validate"
    /\ UNCHANGED <<col_missing, col_images, col_upper, col_matches,
                   list_touched, search_basenames, list_response>>
    /\ UNCHANGED exceptList

\* photos.py, lines 33-42: a bad offset or limit is answered with 400.
ListValidate ==
    /\ list_pc = "validate"
    /\ IF ValidPagination(list_args.offset, list_args.limit)
       THEN list_pc' = "search" /\ list_response' = list_response
       ELSE list_pc' = "responded" /\ list_response' = [status |-> 400]
    /\ UNCHANGED <<col_missing, col_images, col_upper, col_matches, list_args,
                   list_touched, search_basenames>>
    /\ UNCHANGED exceptList

\* photos.py, lines 44-49: a query is looked up in the XMP files
\* (search_metadata returns [] when the XMP directory is missing).
ListSearch ==
    /\ list_pc = "search"
    /\ IF list_args.search # ""
       THEN /\ search_basenames' =
                 [given |-> TRUE,
                  names |-> IF col_missing = "xmp_dir" THEN {}
                            ELSE col_matches]
            /\ list_touched' = TRUE
       ELSE /\ search_basenames' = [given |-> FALSE, names |-> {}]
            /\ list_touched' = list_touched
    /\ list_pc' = "list"
    /\ UNCHANGED <<col_missing, col_images, col_upper, col_matches, list_args,
                   list_response>>
    /\ UNCHANGED exceptList

\* photos.py, lines 51-76: the photos are listed and sent with their face
\* counts; the ValueError of a collection that lacks something is answered
\* with 400.
ListPhotos ==
    /\ list_pc = "list"
    /\ IF col_missing # "none"
       THEN list_response' = [status |-> 400]
       ELSE \E enumeration \in Enumerations(col_images) :
              list_response' =
                  list_photos(enumeration, col_upper, list_args.offset,
                              list_args.limit, search_basenames)
    /\ list_touched' = TRUE
    /\ list_pc' = "responded"
    /\ UNCHANGED <<col_missing, col_images, col_upper, col_matches, list_args,
                   search_basenames>>
    /\ UNCHANGED exceptList

ListNext ==
    \/ ListRequest
    \/ ListValidate
    \/ ListSearch
    \/ ListPhotos

SpecList == InitList /\ [][ListNext]_vars

\* The images a request matches.
Matching ==
    IF list_args.search = "" THEN col_images
    ELSE col_images \cap col_matches

\* The offset or the limit of the request is one the endpoint rejects.
Rejected ==
    list_args.offset < 0 \/ list_args.limit < 1 \/ list_args.limit > 100

\* The response lists the matching images from the offset on, up to limit.
ListsPage ==
    /\ list_response.status = 200
    /\ list_response.total = Cardinality(Matching)
    /\ Len(list_response.photos) =
           SetMin({list_args.limit,
                   Max({0, list_response.total - list_args.offset})})
    /\ Range(list_response.photos) \subseteq Matching

\* C17 as stated: a request with offset < 0 or limit outside 1..100 is
\* answered with 400 and has read nothing; a request with other parameters
\* is answered with total = the number of matching images and
\* min(limit, max(0, total - offset)) photos.
C17_PaginationOfAnyCollection ==
    /\ (list_pc \notin {"idle", "validate"} /\ Rejected)
       => /\ list_pc = "responded"
          /\ list_response.status = 400
          /\ ~list_touched
    /\ (list_pc = "responded" /\ ~Rejected) => ListsPage

\* C17, amended: a request with offset < 0 or limit outside 1..100 is
\* answered with 400 and has read nothing; a request with other parameters
\* is answered with total = the number of matching images and
\* min(limit, max(0, total - offset)) photos when the collection has its
\* XMP directory, VERSION file and enhanced_fronts directory, and with 400
\* when it lacks one of them.
C17_Pagination ==
    /\ (list_pc \notin {"idle", "validate"} /\ Rejected)
       => /\ list_pc = "responded"
          /\ list_response.status = 400
          /\ ~list_touched
    /\ (list_pc = "responded" /\ ~Rejected /\ col_missing = "none")
       => ListsPage
    /\ (list_pc = "responded" /\ ~Rejected /\ col_missing # "none")
       => list_response.status = 400

\* A search matched two images and the request got the second, the last.
C17_Witness ==
    /\ list_pc = "responded"
    /\ list_args = [offset |-> 1, limit |-> 100, search |-> "q"]
    /\ Cardinality(col_images) = MaxListed
    /\ list_response.status = 200
    /\ list_response.total = 2
    /\ Len(list_response.photos) = 1


\* ------------------------------------------------------------------------
\* The collection viewer: web/app.py over Collection and Photo. Its
\* handlers have no await in them: each runs from request to response
\* without another one in between.

\* The directories a load is asked for.
Paths == {"p1", "p2", "p3", "p4"}

\* What is at each of them: a collection, no directory, a directory
\* without collection.json, one whose collection.json cannot be read.
KindAt == [p1 |-> "ok", p2 |-> "missing", p3 |-> "no_json", p4 |-> "broken"]

\* The ids of the photos of the collections on disk, in their order.
IdLists == {<<>>, <<"a">>, <<"b", "a">>, <<"a", "a">>}

\* The photo ids that are asked for: one that is in most collections and
\* one that is in none.
RequestIds == {"a", "c"}

\* photo.py, line 73: the orientations there are.
Orientations == {0, 90, 180, 270}

\* The orientations and image types that are asked for.
RequestOrientations == {0, 90, 45}
RequestTypes == {"front", "back", "enhanced_front", "side"}

\* The endpoints that begin with get_photo_or_404 and change nothing.
PhotoEndpoints == {"photo_detail_page", "get_photo", "get_thumbnail",
                   "get_front", "get_back", "get_enhanced_front"}

\* The photo endpoints that answer 404 for an image the photo lacks.
OptionalImages == {"get_thumbnail", "get_back", "get_enhanced_front"}

\* A photo as Collection.read makes it of collection.json (lines 49-62).
StoredPhoto(id, front) ==
    [id |-> id, front_orientation |-> front, back_orientation |-> 0,
     enhanced_front_orientation |-> 0]

\* The photo lists of the collections on disk.
StoredCollections ==
    UNION {{[k \in 1 .. Len(ids) |-> StoredPhoto(ids[k], fronts[k])] :
                fronts \in [1 .. Len(ids) -> {0, 90}]} : ids \in IdLists}

\* collection.py, lines 126-129: the path of the front image, which every
\* entry of collection.json has.
FrontPath(photo_id) == <<"images", photo_id, "front.jpg">>

\* An entry of a collection.json on disk when the viewer starts: one
\* written without the orientation keys, or one with all three.
StoredEntry(photo) ==
    IF photo.front_orientation = 0
    THEN [id |-> photo.id, images |-> [front |-> FrontPath(photo.id)]]
    ELSE [id |-> photo.id,
          images |-> [front |-> FrontPath(photo.id),
                      front_orientation |-> photo.front_orientation,
                      back_orientation |-> photo.back_orientation,
                      enhanced_front_orientation |->
                          photo.enhanced_front_orientation]]

\* dict.get(key, 0) on the images of an entry.
GetOrZero(images, key) ==
    IF key \in DOMAIN images THEN images[key] ELSE 0

\* collection.py, lines 42-65: Collection.read, the photos it makes of the
\* entries of collection.json.
read(entries) ==
    [k \in 1 .. Len(entries) |->
        [id |-> entries[k].id,
         front_orientation |->
             GetOrZero(entries[k].images, "front_orientation"),
         back_orientation |->
             GetOrZero(entries[k].images, "back_orientation"),
         enhanced_front_orientation |->
             GetOrZero(entries[k].images, "enhanced_front_orientation")]]

\* Lines 113-164 with a fault: the entries are written with the image
\* paths and without the orientations.
write_paths(photos) ==
    [k \in 1 .. Len(photos) |->
        [id |-> photos[k].id,
         images |-> [front |-> FrontPath(photos[k].id)]]]

\* collection.py, lines 113-164: Collection.write, the entries it puts in
\* collection.json, one for each photo in the order of the list.
write(photos) ==
    [k \in 1 .. Len(photos) |->
        [id |-> photos[k].id,
         images |-> [front |-> FrontPath(photos[k].id),
                     front_orientation |-> photos[k].front_orientation,
                     back_orientation |-> photos[k].back_orientation,
                     enhanced_front_orientation |->
                         photos[k].enhanced_front_orientation]]]

\* The orientation a photo has for an image type.
OrientationOf(photo, image_type) ==
    IF image_type = "front" THEN photo.front_orientation
    ELSE IF image_type = "back" THEN photo.back_orientation
    ELSE photo.enhanced_front_orientation

\* No orientation has been set.
NoTrail == [stage |-> "none"]

\* An orientation has been set in memory: what was asked for, and what
\* collection.json holds for that photo and image type at that time.
Patched(photo_id, image_type, orientation, at, entries) ==
    [stage |-> "patched", photo_id |-> photo_id, image_type |-> image_type,
     orientation |-> orientation,
     on_disk |-> OrientationOf(read(entries)[at], image_type)]

\* The collection has been saved: an orientation set since the load is
\* now on disk.
Saved(trail) ==
    IF trail.stage = "patched" THEN [trail EXCEPT !.stage = "saved"]
    ELSE trail

\* A path has been loaded: the same path again, after the orientation was
\* set and saved or set and not saved, or another path.
Reloaded(trail, path, collection_path) ==
    IF trail.stage = "none" THEN trail
    ELSE IF path # collection_path THEN NoTrail
    ELSE IF trail.stage = "patched"
    THEN [trail EXCEPT !.stage = "reloaded_unsaved"]
    ELSE IF trail.stage = "saved"
    THEN [trail EXCEPT !.stage = "reloaded_saved"]
    ELSE trail

\* None.
NoCollection == [loaded |-> FALSE, photos |-> <<>>]

\* The responses.
Ok == [status |-> 200, detail |-> ""]
NoCollectionLoaded == [status |-> 400, detail |-> "No collection loaded"]
Answer(status, detail) == [status |-> status, detail |-> detail]

\* Lines 61-84 with a fault: the collection of before is dropped when the
\* load begins.
load_collection_clearing(path, disk, collection, collection_path) ==
    IF disk[path].kind = "ok"
    THEN [response |-> Ok,
          collection |-> [loaded |-> TRUE,
                          photos |-> read(disk[path].photos)],
          path |-> path]
    ELSE [response |-> Answer(404, "Directory not found"),
          collection |-> NoCollection, path |-> "None"]

\* Lines 61-84: load_collection. Collection.read raises on a collection.json
\* or an image it cannot read, before anything is assigned.
load_collection(path, disk, collection, collection_path) ==
    IF disk[path].kind = "missing"
    THEN [response |-> Answer(404, "Directory not found"),
          collection |-> collection, path |-> collection_path]
    ELSE IF disk[path].kind = "no_json"
    THEN [response |-> Answer(400, "No collection.json found in directory"),
          collection |-> collection, path |-> collection_path]
    ELSE IF disk[path].kind = "broken"
    THEN [response |-> Answer(500, "Internal Server Error"),
          collection |-> collection, path |-> collection_path]
    ELSE [response |-> Ok,
          collection |-> [loaded |-> TRUE,
                          photos |-> read(disk[path].photos)],
          path |-> path]

\* Lines 104-113: get_photo_or_404; at is the place of the first photo of
\* the id, 0 with an error response.
get_photo_or_404(collection, photo_id) ==
    IF ~collection.loaded THEN [at |-> 0, response |-> NoCollectionLoaded]
    ELSE IF \E k \in 1 .. Len(collection.photos) :
                collection.photos[k].id = photo_id
    THEN [at |-> SetMin({k \in 1 .. Len(collection.photos) :
                            collection.photos[k].id = photo_id}),
          response |-> Ok]
    ELSE [at |-> 0, response |-> Answer(404, "Photo not found")]

\* photo.py, lines 66-83 with a fault: the orientation is not checked.
set_orientation_unchecked(photo, image_type, orientation) ==
    IF image_type = "front"
    THEN [raised |-> FALSE,
          photo |-> [photo EXCEPT !.front_orientation = orientation]]
    ELSE IF image_type = "back"
    THEN [raised |-> FALSE,
          photo |-> [photo EXCEPT !.back_orientation = orientation]]
    ELSE IF image_type = "enhanced_front"
    THEN [raised |-> FALSE,
          photo |-> [photo EXCEPT !.enhanced_front_orientation = orientation]]
    ELSE [raised |-> TRUE, photo |-> photo]

\* photo.py, lines 66-83: Photo.set_orientation.
set_orientation(photo, image_type, orientation) ==
    IF orientation \notin Orientations
    THEN [raised |-> TRUE, photo |-> photo]
    ELSE IF image_type = "front"
    THEN [raised |-> FALSE,
          photo |-> [photo EXCEPT !.front_orientation = orientation]]
    ELSE IF image_type = "back"
    THEN [raised |-> FALSE,
          photo |-> [photo EXCEPT !.back_orientation = orientation]]
    ELSE IF image_type = "enhanced_front"
    THEN [raised |-> FALSE,
          photo |-> [photo EXCEPT !.enhanced_front_orientation = orientation]]
    ELSE [raised |-> TRUE, photo |-> photo]


\* The viewer is started: no collection is loaded. On disk p1 holds a
\* collection and the other paths do not.
InitApp ==
    /\ \E photos \in StoredCollections :
         app_disk = [path \in Paths |->
                        [kind |-> KindAt[path],
                         photos |-> IF KindAt[path] = "ok"
                                    THEN [k \in 1 .. Len(photos) |->
                                             StoredEntry(photos[k])]
                                    ELSE <<>>]]
    /\ current_collection = NoCollection
    /\ current_collection_path = "None"
    /\ app_request = [endpoint |-> "none"]
    /\ app_response = [status |-> 0, detail |-> ""]
    /\ app_loaded = FALSE
    /\ app_trail = NoTrail
    /\ DedupIdle
    /\ ReorgIdle
    /\ ImgIdle
    /\ ListIdle
    /\ FaceIdle

\* Lines 61-84: POST /api/collection/load.
LoadCollection ==
    /\ \E path \in Paths :
         LET loaded == load_collection(path, app_disk, current_collection,
                                       current_collection_path)
         IN  /\ app_request' = [endpoint |-> "load_collection", path |-> path]
             /\ app_response' = loaded.response
             /\ current_collection' = loaded.collection
             /\ current_collection_path' = loaded.path
             /\ app_loaded' = (app_loaded \/ loaded.response.status = 200)
             /\ app_trail' = IF loaded.response.status = 200
                              THEN Reloaded(app_trail, path,
                                            current_collection_path)
                              ELSE app_trail
    /\ UNCHANGED app_disk
    /\ UNCHANGED exceptApp

\* Lines 87-101: GET /api/collection.
GetCollection ==
    /\ app_request' = [endpoint |-> "get_collection"]
    /\ app_response' = IF ~current_collection.loaded THEN NoCollectionLoaded
                       ELSE Ok
    /\ UNCHANGED <<app_disk, current_collection, current_collection_path,
                   app_loaded, app_trail>>
    /\ UNCHANGED exceptApp

\* Lines 116-198: the photo endpoints. The images themselves are not in
\* the state: a photo may lack the optional ones.
GetPhoto ==
    /\ \E endpoint \in PhotoEndpoints, photo_id \in RequestIds :
         LET found == get_photo_or_404(current_collection, photo_id)
         IN  /\ app_request' = [endpoint |-> endpoint, photo_id |-> photo_id]
             /\ app_response' \in
                  IF found.at = 0 THEN {found.response}
                  ELSE IF endpoint \in OptionalImages
                  THEN {Ok, Answer(404, "Photo has no image")}
                  ELSE {Ok}
    /\ UNCHANGED <<app_disk, current_collection, current_collection_path,
                   app_loaded, app_trail>>
    /\ UNCHANGED exceptApp

\* Lines 201-211: PATCH /api/photos/{photo_id}/orientation.
UpdateOrientation ==
    /\ \E photo_id \in RequestIds, image_type \in RequestTypes,
          orientation \in RequestOrientations :
         LET found == get_photo_or_404(current_collection, photo_id)
             updated == set_orientation(current_collection.photos[found.at],
                                        image_type, orientation)
         IN  /\ app_request' = [endpoint |-> "update_orientation",
                                photo_id |-> photo_id,
                                image_type |-> image_type,
                                orientation |-> orientation]
             /\ IF found.at = 0
                THEN /\ app_response' = found.response
                     /\ current_collection' = current_collection
                     /\ app_trail' = app_trail
                ELSE IF updated.raised
                THEN /\ app_response' = Answer(400, "Invalid")
                     /\ current_collection' = current_collection
                     /\ app_trail' = app_trail
                ELSE /\ app_response' = Ok
                     /\ current_collection' =
                          [current_collection EXCEPT
                               !.photos[found.at] = updated.photo]
                     /\ app_trail' =
                          Patched(photo_id, image_type, orientation,
                                  found.at,
                                  app_disk[current_collection_path].photos)
    /\ UNCHANGED <<app_disk, current_collection_path, app_loaded>>
    /\ UNCHANGED exceptApp

\* Lines 214-221 and Collection.write: POST /api/collection/save.
SaveCollection ==
    /\ app_request' = [endpoint |-> "save_collection"]
    /\ IF ~current_collection.loaded \/ current_collection_path = "None"
       THEN /\ app_response' = NoCollectionLoaded
            /\ app_disk' = app_disk
            /\ app_trail' = app_trail
       ELSE /\ app_response' = Ok
            /\ app_trail' = Saved(app_trail)
            /\ app_disk' = [app_disk EXCEPT ![current_collection_path] =
                               [kind |-> "ok",
                                photos |-> write(current_collection.photos)]]
    /\ UNCHANGED <<current_collection, current_collection_path, app_loaded>>
    /\ UNCHANGED exceptApp

AppNext ==
    \/ LoadCollection
    \/ GetCollection
    \/ GetPhoto
    \/ UpdateOrientation
    \/ SaveCollection

SpecApp == InitApp /\ [][AppNext]_vars


\* The endpoints that need a loaded collection.
Guarded ==
    {"get_collection", "update_orientation", "save_collection"}
        \cup PhotoEndpoints

\* C18: a request to GET /api/collection, a photo endpoint, PATCH
\* orientation or POST save is answered with 400 'No collection loaded' as
\* long as no load has been answered with 200, and never after one has.
C18_LoadedGate ==
    app_request.endpoint \in Guarded =>
        (app_response = [status |-> 400, detail |-> "No collection loaded"]
             <=> ~app_loaded)

\* After a load that succeeded, a save was answered with 200.
C18_Witness ==
    /\ app_loaded
    /\ app_request.endpoint = "save_collection"
    /\ app_response.status = 200
    /\ current_collection.photos # <<>>

\* A request names an orientation and an image type there are.
ValidPatch(request) ==
    /\ request.orientation \in {0, 90, 180, 270}
    /\ request.image_type \in {"front", "back", "enhanced_front"}

\* The place of the photo a request addresses: the first of its id; 0 when
\* there is none.
AddressedAt(request) ==
    LET places == {k \in 1 .. Len(current_collection.photos) :
                       current_collection.photos[k].id = request.photo_id}
    IN  IF places = {} THEN 0 ELSE SetMin(places)

\* The step from this state to the next changes at most the orientation
\* that the request names.
ChangesOnlyNamed(request) ==
    /\ app_disk' = app_disk
    /\ current_collection'.loaded = current_collection.loaded
    /\ Len(current_collection'.photos) = Len(current_collection.photos)
    /\ \A k \in 1 .. Len(current_collection.photos) :
         /\ current_collection'.photos[k].id = current_collection.photos[k].id
         /\ \A image_type \in {"front", "back", "enhanced_front"} :
              (k # AddressedAt(request) \/ image_type # request.image_type)
              => OrientationOf(current_collection'.photos[k], image_type)
                     = OrientationOf(current_collection.photos[k], image_type)

\* The step from this state to the next changes no orientation, in memory
\* or on disk.
ChangesNothing ==
    /\ app_disk' = app_disk
    /\ current_collection' = current_collection

\* C19 as stated: a PATCH orientation request with an orientation outside
\* {0, 90, 180, 270} or an image type outside {front, back, enhanced_front}
\* is answered with 400 and changes no orientation; a valid one changes
\* only the orientation it names.
C19_InvalidPatchAnswers400 ==
    [][app_request'.endpoint = "update_orientation" =>
          IF ValidPatch(app_request')
          THEN ChangesOnlyNamed(app_request')
          ELSE app_response'.status = 400 /\ ChangesNothing]_vars

\* C19, amended: a PATCH orientation request changes nothing and is
\* answered with 400 when no collection is loaded, with 404 when the loaded
\* collection has no photo of the id, and with 400 when it has one and the
\* orientation or the image type is not one there is; a valid request for a
\* photo of the loaded collection is answered with 200 and sets the named
\* orientation of that photo, and nothing else.
C19_PatchFrame ==
    [][app_request'.endpoint = "update_orientation" =>
          LET request == app_request'
          IN  IF ~current_collection.loaded
              THEN app_response'.status = 400 /\ ChangesNothing
              ELSE IF AddressedAt(request) = 0
              THEN app_response'.status = 404 /\ ChangesNothing
              ELSE IF ~ValidPatch(request)
              THEN app_response'.status = 400 /\ ChangesNothing
              ELSE /\ app_response'.status = 200
                   /\ ChangesOnlyNamed(request)
                   /\ OrientationOf(
                          current_collection'.photos[AddressedAt(request)],
                          request.image_type) = request.orientation]_vars

\* The back of the second photo was turned and the first photo was not.
C19_Witness ==
    /\ app_request.endpoint = "update_orientation"
    /\ app_request.photo_id = "a"
    /\ app_request.image_type = "back"
    /\ app_request.orientation = 90
    /\ app_response.status = 200
    /\ Len(current_collection.photos) = 2
    /\ current_collection.photos[1] = StoredPhoto("b", 90)
    /\ current_collection.photos[2].back_orientation = 90
    /\ current_collection.photos[2].front_orientation = 0
    /\ read(app_disk["p1"].photos)[2].back_orientation = 0


\* C21: two different groups (different parent directory or different base
\* name) are never written under the same output name, so no copy
\* overwrites the file of another group.
C21_DistinctGroupsDistinctNames ==
    \A k1, k2 \in 1 .. Len(copied) :
        ~SameGroup(copied[k1].source, copied[k2].source)
            => copied[k1].name # copied[k2].name


\* ------------------------------------------------------------------------
\* The init-collection and recognize-faces commands: init_collection and
\* _generate_xmp of collections.py, recognize_faces and
\* _add_face_regions_to_xmp of facial_recognition.py. An XMP file is the
\* list of the Description elements under its RDF element; a Description is
\* the list of its child elements.

\* The most images of a collection.
MaxXmp == 2

\* The most runs of recognize-faces.
MaxRuns == 2

\* collections.py, lines 87-94: the prefixes that have a namespace.
KnownPrefixes == {"dc", "xmp", "photoshop", "xmpRights", "Iptc4xmpCore",
                  "exif"}

\* collections.py, lines 87-118: the namespace of a prefix; one that is not
\* known gets a namespace of its own.
NamespaceOf(prefix) ==
    IF prefix \in KnownPrefixes THEN <<"known", prefix>>
    ELSE <<"http://ns.example.com/", prefix, "/1.0/">>

\* The namespace of the face regions (facial_recognition.py, line 312).
RegionsNamespace ==
    <<"http://www.metadataworkinggroup.com/schemas/regions/">>

\* A tag of the --tag option, split at its colon.
Tag(prefix, local) == [prefix |-> prefix, local |-> local]

\* The tags a collection is initialized with, in the order they are given.
TagLists == {<<>>,
             <<Tag("dc", "creator")>>,
             <<Tag("dc", "creator"), Tag("xmp", "Rating"),
               Tag("dc", "title")>>,
             <<Tag("mwg-rs", "Regions")>>}

\* An element of a namespace and a name; entries are the li elements of a
\* Regions element.
Element(ns, local, entries) ==
    [ns |-> ns, local |-> local, entries |-> entries]

RECURSIVE TagsByNamespace(_, _)
\* collections.py, lines 108-142: the tags are grouped by namespace, in the
\* order the namespaces come first, one Description for each.
TagsByNamespace(tags, descriptions) ==
    IF tags = <<>> THEN descriptions
    ELSE LET ns == NamespaceOf(Head(tags).prefix)
             child == Element(ns, Head(tags).local, <<>>)
             of_ns == {k \in 1 .. Len(descriptions) :
                           descriptions[k][1].ns = ns}
         IN  TagsByNamespace(
                 Tail(tags),
                 IF of_ns = {} THEN Append(descriptions, <<child>>)
                 ELSE [descriptions EXCEPT
                           ![SetMin(of_ns)] = Append(@, child)])

\* collections.py, lines 76-151: _generate_xmp.
generate_xmp(tags) == TagsByNamespace(tags, <<>>)

\* A face region: centre, width and height in ten-millionths of the image.
Face(x, y, w, h) == [x |-> x, y |-> y, w |-> w, h |-> h]

\* The face regions a detection can give.
FaceA == Face(5000000, 5000000, 2000000, 2000000)
FaceB == Face(2500004, 2500004, 1000000, 1000000)
Detections == {<<>>, <<FaceA>>, <<FaceB, FaceA>>}

\* f"{value:.6f}": the value in millionths, rounded.
SixDecimals(value) == (value + 5) \div 10

\* facial_recognition.py, lines 364-398: the li element of a face region.
RegionEntry(region) ==
    [x |-> SixDecimals(region.x), y |-> SixDecimals(region.y),
     w |-> SixDecimals(region.w), h |-> SixDecimals(region.h),
     unit |-> "normalized", name |-> "Unknown", type |-> "Face"]

\* facial_recognition.py, lines 332-334: a Regions element.
IsRegions(element) ==
    element.ns = RegionsNamespace /\ element.local = "Regions"

\* The places of the Regions elements among the children of a Description.
RegionsIn(description) ==
    {j \in 1 .. Len(description) : IsRegions(description[j])}

\* Element.remove: the children without the one at a place.
Removed(description, j) ==
    SubSeq(description, 1, j - 1)
        \o SubSeq(description, j + 1, Len(description))


\* The Regions element of a list of face regions (lines 349-398).
RegionsOf(face_regions) ==
    Element(RegionsNamespace, "Regions",
            [k \in 1 .. Len(face_regions) |-> RegionEntry(face_regions[k])])

\* Lines 296-410 with a fault: the Regions element that is there stays.
add_face_regions_to_xmp_accumulating(document, face_regions) ==
    LET with_regions == {k \in 1 .. Len(document) :
                             RegionsIn(document[k]) # {}}
    IN  IF with_regions = {}
        THEN Append(document, <<RegionsOf(face_regions)>>)
        ELSE [document EXCEPT ![SetMin(with_regions)] =
                  Append(@, RegionsOf(face_regions))]

\* Lines 296-410: _add_face_regions_to_xmp. The first Description with a
\* Regions child loses its first one and gets the new one at its end; when
\* there is none, a new Description is added for it. The file is written
\* back with the same elements.
add_face_regions_to_xmp(document, face_regions) ==
    LET with_regions == {k \in 1 .. Len(document) :
                             RegionsIn(document[k]) # {}}
    IN  IF with_regions = {}
        THEN Append(document, <<RegionsOf(face_regions)>>)
        ELSE [document EXCEPT ![SetMin(with_regions)] =
                  Append(Removed(@, SetMin(RegionsIn(@))),
                         RegionsOf(face_regions))]

\* init-collection is started on up to MaxXmp enhanced fronts with tags.
InitFace ==
    /\ xmp_tags \in TagLists
    /\ xmp_docs = <<>>
    /\ \E n \in 0 .. MaxXmp : face_images = 1 .. n
    /\ face_pc = "init"
    /\ xmp_files = <<>>
    /\ xmp_pos = 1
    /\ face_runs = 0
    /\ face_last = <<>>
    /\ face_passes = <<>>
    /\ DedupIdle
    /\ ReorgIdle
    /\ WebIdle

\* collections.py, lines 10-73: init_collection writes the XMP file of
\* every enhanced front.
InitCollection ==
    /\ face_pc = "init"
    /\ xmp_docs' = [stem \in face_images |-> generate_xmp(xmp_tags)]
    /\ face_last' = [stem \in face_images |-> <<>>]
    /\ face_passes' = [stem \in face_images |-> 0]
    /\ face_pc' = "ready"
    /\ UNCHANGED <<xmp_tags, face_images, xmp_files, xmp_pos, face_runs>>
    /\ UNCHANGED exceptFace

\* Between two commands an image is taken out of enhanced_fronts.
DeleteImage ==
    /\ face_pc = "ready"
    /\ \E stem \in face_images : face_images' = face_images \ {stem}
    /\ UNCHANGED <<xmp_tags, xmp_docs, face_pc, xmp_files, xmp_pos,
                   face_runs, face_last, face_passes>>
    /\ UNCHANGED exceptFace

\* facial_recognition.py, lines 16-49: recognize_faces lists the XMP files.
RecognizeStart ==
    /\ face_pc = "ready"
    /\ face_runs < MaxRuns
    /\ face_runs' = face_runs + 1
    /\ xmp_files' = Ascending(DOMAIN xmp_docs)
    /\ xmp_pos' = 1
    /\ face_pc' = "loop"
    /\ UNCHANGED <<xmp_tags, xmp_docs, face_images, face_last, face_passes>>
    /\ UNCHANGED exceptFace

\* Lines 51-62: an XMP file without image is passed over.
RecognizeSkip ==
    /\ face_pc = "loop"
    /\ xmp_pos <= Len(xmp_files)
    /\ xmp_files[xmp_pos] \notin face_images
    /\ xmp_pos' = xmp_pos + 1
    /\ UNCHANGED <<xmp_tags, xmp_docs, face_images, face_pc, xmp_files,
                   face_runs, face_last, face_passes>>
    /\ UNCHANGED exceptFace

\* Lines 51-80: the faces of an image are detected and its XMP file is
\* rewritten, also when there are none.
RecognizeFile ==
    /\ face_pc = "loop"
    /\ xmp_pos <= Len(xmp_files)
    /\ xmp_files[xmp_pos] \in face_images
    /\ \E face_locations \in Detections :
         LET xmp_path == xmp_files[xmp_pos]
         IN  /\ xmp_docs' = [xmp_docs EXCEPT ![xmp_path] =
                                add_face_regions_to_xmp(@, face_locations)]
             /\ face_last' = [face_last EXCEPT ![xmp_path] = face_locations]
             /\ face_passes' = [face_passes EXCEPT ![xmp_path] = @ + 1]
    /\ xmp_pos' = xmp_pos + 1
    /\ UNCHANGED <<xmp_tags, face_images, face_pc, xmp_files, face_runs>>
    /\ UNCHANGED exceptFace

\* Line 82: the run is over.
RecognizeEnd ==
    /\ face_pc = "loop"
    /\ xmp_pos > Len(xmp_files)
    /\ face_pc' = "ready"
    /\ UNCHANGED <<xmp_tags, xmp_docs, face_images, xmp_files, xmp_pos,
                   face_runs, face_last, face_passes>>
    /\ UNCHANGED exceptFace

FaceNext ==
    \/ InitCollection
    \/ DeleteImage
    \/ RecognizeStart
    \/ RecognizeSkip
    \/ RecognizeFile
    \/ RecognizeEnd

SpecFace == InitFace /\ [][FaceNext]_vars

RECURSIVE RegionsElements(_)
\* The Regions elements of an XMP file, in document order.
RegionsElements(document) ==
    IF document = <<>> THEN <<>>
    ELSE SelectSeq(Head(document), IsRegions)
             \o RegionsElements(Tail(document))

\* An li element holds a face region, to six decimals.
Holds(entry, region) ==
    /\ \A side \in {"x", "y", "w", "h"} :
         /\ 10 * entry[side] - region[side] <= 5
         /\ region[side] - 10 * entry[side] <= 5
    /\ entry.type = "Face"

\* C22: an XMP file that init_collection made and recognize_faces has
\* rewritten, once or more often, holds one Regions element, and its
\* entries are the faces detected last, none when none was found.
C22_FacesReplaced ==
    \A stem \in DOMAIN xmp_docs :
        face_passes[stem] >= 1 =>
            LET found == RegionsElements(xmp_docs[stem])
            IN  /\ Len(found) = 1
                /\ Len(found[1].entries) = Len(face_last[stem])
                /\ \A k \in 1 .. Len(face_last[stem]) :
                     Holds(found[1].entries[k], face_last[stem][k])

\* A file with tags of two namespaces was rewritten twice, the second time
\* with no face found, and another file the second time with two.
C22_Witness ==
    /\ xmp_tags = <<Tag("dc", "creator"), Tag("xmp", "Rating"),
                    Tag("dc", "title")>>
    /\ DOMAIN xmp_docs = 1 .. 2
    /\ face_passes[1] = 2
    /\ face_last[1] = <<>>
    /\ Len(xmp_docs[1]) = 3
    /\ face_passes[2] = 2
    /\ face_last[2] = <<FaceB, FaceA>>


\* app.py, lines 124-159: the orientation GET /api/photos/{photo_id}
\* reports for an image type, that of the first photo of the id.
Reported(photo_id, image_type) ==
    OrientationOf(
        current_collection.photos[
            get_photo_or_404(current_collection, photo_id).at],
        image_type)

\* C23: orientation changes live in memory until saved. After a valid
\* PATCH orientation followed by POST save and a reload of the same path,
\* the orientation reported for that photo and image type is the updated
\* value; after a PATCH followed by a reload without a save, it is the
\* value last written to disk.
C23_SavedOrLost ==
    /\ app_trail.stage = "reloaded_saved" =>
           Reported(app_trail.photo_id, app_trail.image_type)
               = app_trail.orientation
    /\ app_trail.stage = "reloaded_unsaved" =>
           Reported(app_trail.photo_id, app_trail.image_type)
               = app_trail.on_disk

\* The back of a photo was turned to 90 while collection.json had it at
\* 0, the collection was saved, and the same path has just been loaded
\* again.
C23_Witness ==
    /\ app_trail = [stage |-> "reloaded_saved", photo_id |-> "a",
                    image_type |-> "back", orientation |-> 90,
                    on_disk |-> 0]
    /\ app_request = [endpoint |-> "load_collection", path |-> "p1"]
    /\ app_response.status = 200
    /\ current_collection_path = "p1"
    /\ Len(current_collection.photos) = 2
    /\ Reported("a", "back") = 90
    /\ GetOrZero(app_disk["p1"].photos[2].images, "back_orientation") = 90

====
